---------------------------- MODULE Spec2Model ----------------------------
(***************************************************************************)
(* A model of AppService (src/src/app/app.service.ts): the error-keyed     *)
(* configuration auto-fix (updateError, fixUpdateErrors, hasUpdateError)   *)
(* and the self-rescheduling update poll (enableVersionListener,           *)
(* checkUpdate).                                                           *)
(*                                                                         *)
(* Strings the code inspects character by character are sequences:         *)
(*  - an error identifier is a sequence of tokens, the token "." being the *)
(*    one character lodash's path parser splits on and every other token a *)
(*    dot-free, bracket-free run of characters;                            *)
(*  - a version or release name is a sequence of one-character strings.    *)
(* A JavaScript object is a function from its own keys to their values; a  *)
(* key that is not in the DOMAIN is an unset (undefined) property.         *)
(***************************************************************************)
EXTENDS Integers, Sequences, FiniteSets, TLC

VARIABLES
    configStore,            \* the Config held by ConfigService
    call,                   \* the most recent call of a public method, with what it did
    retries,                \* times the last batch was handed to fixUpdateErrors again
    version,                \* AppService.version
    latestVersion,          \* AppService.latestVersion
    latestVersionAssetsURL, \* AppService.latestVersionAssetsURL
    updateAvailable,        \* AppService.updateAvailable
    timers,                 \* pending setTimeout(checkUpdate) timers
    requests,               \* http.get subscriptions that have not settled yet
    polls,                  \* checkUpdate invocations so far
    announcements,          \* 'versionInformation' events delivered so far
    notifications,          \* NotificationService.setError calls so far
    announced,              \* the version the last 'versionInformation' event carried
    received,               \* the response the last successful poll delivered
    lastEvent               \* the handler that ran last

vars == <<configStore, call, retries, version, latestVersion, latestVersionAssetsURL,
          updateAvailable, timers, requests, polls, announcements, notifications,
          announced, received, lastEvent>>

fixVars == <<configStore, call, retries>>

updateVars == <<version, latestVersion, latestVersionAssetsURL, updateAvailable,
                timers, requests, polls, announcements, notifications, announced,
                received>>

(***************************************************************************)
(* Bounds of the model.                                                    *)
(***************************************************************************)
MaxBatch == 2           \* longest batch of error identifiers
MaxRetries == 1         \* times a batch is handed to fixUpdateErrors again
MaxPolls == 4           \* checkUpdate invocations in one behaviour
MaxAnnouncements == 2   \* 'versionInformation' events in one behaviour
MaxNotifications == 1   \* 'customStylesError' events in one behaviour

(***************************************************************************)
(* Error identifiers.                                                      *)
(***************************************************************************)
Dot == "."

K_zBabystepGCode == <<Dot, "printer should have required property 'zBabystepGCode'">>
K_tpLinkSmartPlug == <<Dot, "plugins should have required property 'tpLinkSmartPlug'">>
K_previewProgressCircle ==
    <<Dot, "octodash should have required property 'previewProgressCircle'">>
K_turnOnPrinterWhenExitingSleep ==
    <<Dot, "octodash should have required property 'turnOnPrinterWhenExitingSleep'">>

\* the own keys of the updateError object literal
RegisteredKeys ==
    {K_zBabystepGCode, K_tpLinkSmartPlug, K_previewProgressCircle,
     K_turnOnPrinterWhenExitingSleep}

IdUnknownOnly == <<"unknown", Dot, "only">>
IdConstructor == <<"constructor">>
IdToString == <<"toString">>
IdConstructorName == <<"constructor", Dot, "name">>

\* the strings a caller passes in this model
Identifiers == RegisteredKeys \cup {IdUnknownOnly, IdConstructor, IdToString, IdConstructorName}

RECURSIVE SeqsUpTo(_, _)
SeqsUpTo(S, n) ==
    IF n = 0 THEN {<<>>}
    ELSE LET shorter == SeqsUpTo(S, n - 1)
         IN  shorter \cup {Append(s, x) : s \in {t \in shorter : Len(t) = n - 1}, x \in S}

Batches == SeqsUpTo(Identifiers, MaxBatch)

(***************************************************************************)
(* The objects reachable from updateError through property access, as far  *)
(* as lodash's hasIn and the call this.updateError[error](config) look.    *)
(* updateError is an object literal, so its prototype is Object.prototype. *)
(***************************************************************************)
InheritedKeys == {IdConstructor, IdToString}    \* of Object.prototype, among Identifiers
FunctionKeys == {<<"name">>, <<"length">>}  \* own keys of every function object

\* key in Object(object)
In(object, key) ==
    CASE object = "updateError" -> key \in RegisteredKeys \cup InheritedKeys
      [] object = "function" -> key \in FunctionKeys \cup InheritedKeys
      [] object = "value" -> key \in InheritedKeys
      [] OTHER -> FALSE    \* undefined has no properties

\* object[key]
Get(object, key) ==
    CASE object = "updateError" /\ key \in RegisteredKeys -> "function"
      [] object \in {"updateError", "function", "value"} /\ key \in InheritedKeys -> "function"
      [] object = "function" /\ key \in FunctionKeys -> "value"
      [] OTHER -> "undefined"

HasDot(id) == \E i \in 1..Len(id) : id[i] = Dot

\* lodash isKey: a plain property name, or a string that is a key of the object as it is
isKey(id, object) == ~HasDot(id) \/ In(object, id)

\* lodash stringToPath: the segments between the dots; a leading dot, and a dot that is
\* followed by a dot or by the end, stand for an empty segment
RECURSIVE stringToPathFrom(_, _)
stringToPathFrom(id, i) ==
    IF i > Len(id) THEN <<>>
    ELSE IF id[i] = Dot
         THEN IF i = 1 \/ i = Len(id) \/ id[i + 1] = Dot
              THEN <<(<<>>)>> \o stringToPathFrom(id, i + 1)
              ELSE stringToPathFrom(id, i + 1)
         ELSE <<(<<id[i]>>)>> \o stringToPathFrom(id, i + 1)

stringToPath(id) == stringToPathFrom(id, 1)

castPath(id, object) == IF isKey(id, object) THEN <<id>> ELSE stringToPath(id)

\* lodash hasPath with baseHasIn: walk the path, every segment must be `in` the object
\* reached so far (the array-index fallback never applies: nothing here is an array)
RECURSIVE hasPathFrom(_, _, _)
hasPathFrom(object, path, i) ==
    IF i > Len(path) THEN TRUE
    ELSE In(object, path[i]) /\ hasPathFrom(Get(object, path[i]), path, i + 1)

\* _.hasIn(this.updateError, error): own and inherited properties, along a dotted path
hasIn(object, id) ==
    LET path == castPath(id, object)
    IN  Len(path) > 0 /\ hasPathFrom(object, path, 1)

\* _.keys(this.updateError): the own enumerable keys
keys(object) == IF object = "updateError" THEN RegisteredKeys ELSE {}

\* _.intersection(errors, ks): the elements of errors that are in ks
intersection(errors, ks) == {errors[i] : i \in 1..Len(errors)} \cap ks

(***************************************************************************)
(* Config: the sections printer, plugins and octodash. Each section keeps  *)
(* one field no patch names (name, enabled, touchscreen), so that a patch  *)
(* touching it would show.                                                 *)
(***************************************************************************)
Set(object, key, value) ==
    [k \in DOMAIN object \cup {key} |-> IF k = key THEN value ELSE object[k]]

Delete(object, key) == [k \in DOMAIN object \ {key} |-> object[k]]

Has(object, key) == key \in DOMAIN object

Printers ==
    {[name |-> "printer"],
     [name |-> "printer", zBabystepGCode |-> "M290 Z"],
     [name |-> "printer", zBabystepGCode |-> "G91"]}

PsuControls ==
    {[enabled |-> TRUE]} \cup
    {[enabled |-> TRUE, turnOnPSUWhenExitingSleep |-> b] : b \in BOOLEAN}

TpLinkDefault == [enabled |-> TRUE, smartPlugIP |-> "127.0.0.1"]

Plugins ==
    LET base == [displayLayerProgress |-> [enabled |-> TRUE]]
        withTp == {base, Set(base, "tpLinkSmartPlug", TpLinkDefault)}
    IN  withTp \cup {Set(p, "psuControl", c) : p \in withTp, c \in PsuControls}

Octodashes ==
    LET base == [touchscreen |-> TRUE]
        withPreview == {base} \cup {Set(base, "previewProgressCircle", b) : b \in BOOLEAN}
    IN  withPreview \cup
        {Set(o, "turnOnPrinterWhenExitingSleep", b) : o \in withPreview, b \in BOOLEAN}

\* the Configs the store may hold when the service is constructed; a patch applied to
\* one of them yields one of them, so the first call on a Config covers every later one
Configs == [printer : Printers, plugins : Plugins, octodash : Octodashes]

(***************************************************************************)
(* updateError: the four patches. A patch yields the Config it leaves and  *)
(* whether it threw (a TypeError on reading a property of undefined).      *)
(***************************************************************************)
Done(config) == [config |-> config, threw |-> FALSE]
Threw(config) == [config |-> config, threw |-> TRUE]

fix_zBabystepGCode(config) ==
    Done([config EXCEPT !.printer = Set(@, "zBabystepGCode", "M290 Z")])

fix_tpLinkSmartPlug(config) ==
    Done([config EXCEPT !.plugins = Set(@, "tpLinkSmartPlug", TpLinkDefault)])

fix_previewProgressCircle(config) ==
    Done([config EXCEPT !.octodash = Set(@, "previewProgressCircle", FALSE)])

\* config.plugins.psuControl.turnOnPSUWhenExitingSleep ?? false
psuValueOrFalse(config) ==
    IF Has(config.plugins.psuControl, "turnOnPSUWhenExitingSleep")
    THEN config.plugins.psuControl.turnOnPSUWhenExitingSleep
    ELSE FALSE

fix_turnOnPrinterWhenExitingSleep(config) ==
    IF ~Has(config.plugins, "psuControl")
    THEN Threw(config)    \* reading a property of the undefined psuControl
    ELSE Done([config EXCEPT
                 !.octodash = Set(@, "turnOnPrinterWhenExitingSleep", psuValueOrFalse(config)),
                 !.plugins = Set(@, "psuControl",
                                 Delete(config.plugins.psuControl, "turnOnPSUWhenExitingSleep"))])

\* this.updateError[error](config)
Invoke(error, config) ==
    CASE error = K_zBabystepGCode -> fix_zBabystepGCode(config)
      [] error = K_tpLinkSmartPlug -> fix_tpLinkSmartPlug(config)
      [] error = K_previewProgressCircle -> fix_previewProgressCircle(config)
      [] error = K_turnOnPrinterWhenExitingSleep -> fix_turnOnPrinterWhenExitingSleep(config)
         \* an inherited function (Object, Object.prototype.toString) leaves config alone
      [] error \notin RegisteredKeys /\ Get("updateError", error) = "function" -> Done(config)
         \* anything else is not callable
      [] OTHER -> Threw(config)

(***************************************************************************)
(* fixUpdateErrors. The loop state is the borrowed config, the flag, the   *)
(* log of what was done, and whether a patch threw (which ends the call).  *)
(***************************************************************************)
LogGet == [op |-> "getCurrentConfig", error |-> <<>>]
LogPatch(error) == [op |-> "patch", error |-> error]
LogSkip(error) == [op |-> "unknown", error |-> error]
LogSave == [op |-> "saveConfig", error |-> <<>>]

RECURSIVE fixLoop(_, _, _)
fixLoop(errors, i, st) ==
    IF i > Len(errors) \/ st.threw THEN st
    ELSE LET error == errors[i]
         IN  IF hasIn("updateError", error)
             THEN LET r == Invoke(error, st.config)
                  IN  fixLoop(errors, i + 1,
                              [st EXCEPT !.config = r.config,
                                         !.threw = r.threw,
                                         !.log = Append(@, LogPatch(error))])
             ELSE fixLoop(errors, i + 1,
                          [st EXCEPT !.fullyAutofixed = FALSE,
                                     !.log = Append(@, LogSkip(error))])

\* the whole method: what it returned or that it threw, the Config it passed to
\* saveConfig (saved is the sequence of saveConfig arguments), and the log
fixUpdateErrors(errors, current) ==
    LET st == fixLoop(errors, 1,
                      [config |-> current, fullyAutofixed |-> TRUE, threw |-> FALSE,
                       log |-> <<LogGet>>])
    IN  [op |-> "fixUpdateErrors",
         errors |-> errors,
         before |-> current,
         config |-> st.config,
         threw |-> st.threw,
         returned |-> ~st.threw /\ st.fullyAutofixed,
         saved |-> IF st.threw THEN <<>> ELSE <<st.config>>,
         log |-> IF st.threw THEN st.log ELSE Append(st.log, LogSave)]

hasUpdateError_hasIn(errors) == \E i \in 1..Len(errors) : hasIn("updateError", errors[i])

hasUpdateError(errors) == Cardinality(intersection(errors, keys("updateError"))) > 0

\* ConfigService, as AppService uses it: getCurrentConfig hands out the store's Config,
\* saveConfig makes its argument the store's Config
getCurrentConfig(store) == store

saveConfig(store, config) == config

(***************************************************************************)
(* The update poll. The service's fields and its pending timers and        *)
(* requests form one record, which every handler maps to the next one.     *)
(***************************************************************************)
Undefined == <<"undefined">>    \* an unset string field; no version is spelled like this
UndefinedURL == "undefined"

Versions == {<<"1">>, <<"2">>}                          \* versionInformation.version
ReleaseNames == {<<"v", "1">>, <<"v", "2">>, <<"2">>, <<"2", "d", "e", "v">>}   \* data.name
AssetURLs == {"https://x", "https://y"}                 \* data.assets_url
Releases == [name : ReleaseNames, assets_url : AssetURLs]
NoRelease == [name |-> Undefined, assets_url |-> UndefinedURL]   \* no response so far

Service ==
    [version |-> version, latestVersion |-> latestVersion,
     latestVersionAssetsURL |-> latestVersionAssetsURL,
     updateAvailable |-> updateAvailable, timers |-> timers, requests |-> requests,
     notifications |-> notifications]

\* String.prototype.replace(pattern, replacement) with a string pattern of one
\* character: the first occurrence, wherever it is, is replaced
RECURSIVE replace(_, _, _)
replace(str, pattern, replacement) ==
    IF str = <<>> THEN <<>>
    ELSE IF Head(str) = pattern THEN replacement \o Tail(str)
         ELSE <<Head(str)>> \o replace(Tail(str), pattern, replacement)

checkUpdate_noTimer(s) == [s EXCEPT !.requests = @ + 1]

\* checkUpdate: subscribe to one http.get, arm one timer
checkUpdate(s) == [s EXCEPT !.requests = @ + 1, !.timers = @ + 1]

onVersionInformation_once(s, versionInformation) ==
    checkUpdate([s EXCEPT !.version = IF @ = Undefined THEN versionInformation ELSE @])

\* the 'versionInformation' listener
onVersionInformation(s, versionInformation) ==
    checkUpdate([s EXCEPT !.version = versionInformation])

onRelease_onlyWhenNewer(s, data) ==
    IF s.version # replace(data.name, "v", <<>>)
    THEN [s EXCEPT !.updateAvailable = TRUE,
                   !.latestVersion = replace(data.name, "v", <<>>),
                   !.latestVersionAssetsURL = data.assets_url,
                   !.requests = @ - 1]
    ELSE [s EXCEPT !.requests = @ - 1]

onRelease_comparesLatest(s, data) ==
    [s EXCEPT !.updateAvailable =
                  IF s.latestVersion # replace(data.name, "v", <<>>) THEN TRUE ELSE @,
              !.latestVersion = replace(data.name, "v", <<>>),
              !.latestVersionAssetsURL = data.assets_url,
              !.requests = @ - 1]

\* the success callback of the subscription
onRelease(s, data) ==
    [s EXCEPT !.updateAvailable = IF s.version # replace(data.name, "v", <<>>) THEN TRUE ELSE @,
              !.latestVersion = replace(data.name, "v", <<>>),
              !.latestVersionAssetsURL = data.assets_url,
              !.requests = @ - 1]

onReleaseError_notifies(s) == [s EXCEPT !.requests = @ - 1, !.notifications = @ + 1]

\* the error callback of the subscription: (): void => null
onReleaseError(s) == [s EXCEPT !.requests = @ - 1]

onTimer_once(s) == checkUpdate_noTimer([s EXCEPT !.timers = @ - 1])

onTimer_guarded(s) ==
    IF s.requests > 0 THEN s ELSE checkUpdate([s EXCEPT !.timers = @ - 1])

\* the timer callback: this.checkUpdate.bind(this)
onTimer(s) == checkUpdate([s EXCEPT !.timers = @ - 1])

\* the read accessors
getVersion == version

getLatestVersion == latestVersion

getLatestVersionAssetsURL == latestVersionAssetsURL

\* the 'customStylesError' listener
onCustomStylesError(s) == [s EXCEPT !.notifications = @ + 1]

(***************************************************************************)
(* The state after construction, and the handlers as actions.              *)
(***************************************************************************)
NoCall ==
    [op |-> "none", errors |-> <<>>, before |-> <<>>, config |-> <<>>, threw |-> FALSE,
     returned |-> FALSE, saved |-> <<>>, log |-> <<>>]

InitService ==
    /\ call = NoCall
    /\ retries = 0
    /\ version = Undefined
    /\ latestVersion = Undefined
    /\ latestVersionAssetsURL = UndefinedURL
    /\ updateAvailable = FALSE
    /\ timers = 0
    /\ requests = 0
    /\ polls = 0
    /\ announcements = 0
    /\ notifications = 0
    /\ announced = Undefined
    /\ received = NoRelease
    /\ lastEvent = "constructor"

Init == configStore \in Configs /\ InitService

Become(s) ==
    /\ version' = s.version
    /\ latestVersion' = s.latestVersion
    /\ latestVersionAssetsURL' = s.latestVersionAssetsURL
    /\ updateAvailable' = s.updateAvailable
    /\ timers' = s.timers
    /\ requests' = s.requests
    /\ notifications' = s.notifications

\* what a call of fixUpdateErrors leaves in the store: the saved Config, or, when the
\* call threw before saveConfig, the old Config or the one patched so far (the store
\* hands out its own object or a copy)
StoreAfter(r) ==
    IF r.threw THEN {configStore, r.config} ELSE {saveConfig(configStore, r.config)}

\* the first call of a public method, with a batch of the given set
FixUpdateErrorsOf(batches) ==
    \E errors \in batches :
        LET r == fixUpdateErrors(errors, getCurrentConfig(configStore))
        IN  /\ call.op = "none"
            /\ call' = r
            /\ configStore' \in StoreAfter(r)
            /\ lastEvent' = "fixUpdateErrors"
            /\ UNCHANGED <<retries, updateVars>>

FixUpdateErrors == FixUpdateErrorsOf(Batches)

\* the caller triggers the fix again with the batch it had
FixUpdateErrorsAgain ==
    LET r == fixUpdateErrors(call.errors, getCurrentConfig(configStore))
    IN  /\ call.op = "fixUpdateErrors"
        /\ retries < MaxRetries
        /\ retries' = retries + 1
        /\ call' = r
        /\ configStore' \in StoreAfter(r)
        /\ lastEvent' = "fixUpdateErrorsAgain"
        /\ UNCHANGED <<updateVars>>

HasUpdateError ==
    \E errors \in Batches :
        /\ call.op = "none"
        /\ call' = [NoCall EXCEPT !.op = "hasUpdateError", !.errors = errors,
                                  !.before = configStore, !.config = configStore,
                                  !.returned = hasUpdateError(errors)]
        /\ lastEvent' = "hasUpdateError"
        /\ UNCHANGED <<configStore, retries, updateVars>>

VersionInformation ==
    \E v \in Versions :
        /\ announcements < MaxAnnouncements
        /\ polls < MaxPolls
        /\ announcements' = announcements + 1
        /\ polls' = polls + 1
        /\ Become(onVersionInformation(Service, v))
        /\ announced' = v
        /\ lastEvent' = "versionInformation"
        /\ UNCHANGED <<fixVars, received>>

TimerFires ==
    /\ timers > 0
    /\ polls < MaxPolls
    /\ polls' = polls + 1
    /\ Become(onTimer(Service))
    /\ lastEvent' = "timer"
    /\ UNCHANGED <<fixVars, announcements, announced, received>>

ReleaseReceived ==
    \E data \in Releases :
        /\ requests > 0
        /\ Become(onRelease(Service, data))
        /\ received' = data
        /\ lastEvent' = "release"
        /\ UNCHANGED <<fixVars, polls, announcements, announced>>

ReleaseFailed ==
    /\ requests > 0
    /\ Become(onReleaseError(Service))
    /\ lastEvent' = "releaseError"
    /\ UNCHANGED <<fixVars, polls, announcements, announced, received>>

CustomStylesError ==
    /\ notifications < MaxNotifications
    /\ Become(onCustomStylesError(Service))
    /\ lastEvent' = "customStylesError"
    /\ UNCHANGED <<fixVars, polls, announcements, announced, received>>

FixNext == FixUpdateErrors \/ FixUpdateErrorsAgain \/ HasUpdateError

UpdateNext ==
    \/ VersionInformation
    \/ TimerFires
    \/ ReleaseReceived
    \/ ReleaseFailed
    \/ CustomStylesError

Next == FixNext \/ UpdateNext

Spec == Init /\ [][Next]_vars

\* the auto-fix engine alone, over every Config of Configs
SpecFix == Init /\ [][FixNext]_vars

\* the update poll alone, over one Config (no handler of the poll reads the Config)
InitUpdate ==
    /\ configStore = [printer |-> [name |-> "printer", zBabystepGCode |-> "M290 Z"],
                      plugins |-> [displayLayerProgress |-> [enabled |-> TRUE],
                                   tpLinkSmartPlug |-> TpLinkDefault,
                                   psuControl |-> [enabled |-> TRUE]],
                      octodash |-> [touchscreen |-> TRUE, previewProgressCircle |-> FALSE,
                                    turnOnPrinterWhenExitingSleep |-> FALSE]]
    /\ InitService

SpecUpdate == InitUpdate /\ [][UpdateNext]_vars

\* the update poll interleaved with one call of fixUpdateErrors on a single identifier,
\* from a Config with every field and from one with none of the patched fields
SingleBatches == {<<error>> : error \in Identifiers}

FixOne == FixUpdateErrorsOf(SingleBatches)

InitAll ==
    /\ configStore \in
          {[printer |-> [name |-> "printer", zBabystepGCode |-> "M290 Z"],
            plugins |-> [displayLayerProgress |-> [enabled |-> TRUE],
                         tpLinkSmartPlug |-> TpLinkDefault,
                         psuControl |-> [enabled |-> TRUE]],
            octodash |-> [touchscreen |-> TRUE, previewProgressCircle |-> FALSE,
                          turnOnPrinterWhenExitingSleep |-> FALSE]],
           [printer |-> [name |-> "printer"],
            plugins |-> [displayLayerProgress |-> [enabled |-> TRUE]],
            octodash |-> [touchscreen |-> TRUE]]}
    /\ InitService

NextAll == UpdateNext \/ FixOne

SpecAll == InitAll /\ [][NextAll]_vars

\* the update poll with the event loop's guarantee that a timer that is due fires
SpecUpdateFair == SpecUpdate /\ WF_vars(TimerFires)

(***************************************************************************)
(* Properties of fixUpdateErrors and hasUpdateError (SpecFix).              *)
(***************************************************************************)
IsFixCall == call.op = "fixUpdateErrors"

ErrorsOf(c) == {c.errors[i] : i \in 1..Len(c.errors)}

AllRegistered(c) == ErrorsOf(c) \subseteq RegisteredKeys

SavesIn(log) == {i \in 1..Len(log) : log[i] = LogSave}

\* the field a registered identifier names holds what its patch writes
Applied(error, config) ==
    CASE error = K_zBabystepGCode ->
            Has(config.printer, "zBabystepGCode") /\ config.printer.zBabystepGCode = "M290 Z"
      [] error = K_tpLinkSmartPlug ->
            Has(config.plugins, "tpLinkSmartPlug")
            /\ config.plugins.tpLinkSmartPlug = TpLinkDefault
      [] error = K_previewProgressCircle ->
            Has(config.octodash, "previewProgressCircle")
            /\ config.octodash.previewProgressCircle = FALSE
      [] error = K_turnOnPrinterWhenExitingSleep ->
            /\ Has(config.octodash, "turnOnPrinterWhenExitingSleep")
            /\ Has(config.plugins, "psuControl")
               => ~Has(config.plugins.psuControl, "turnOnPSUWhenExitingSleep")
      [] OTHER -> TRUE

\* plugins.psuControl.turnOnPSUWhenExitingSleep of a Config, false if it is unset
PriorPsuValue(config) ==
    IF Has(config.plugins, "psuControl")
       /\ Has(config.plugins.psuControl, "turnOnPSUWhenExitingSleep")
    THEN config.plugins.psuControl.turnOnPSUWhenExitingSleep
    ELSE FALSE

\* C1: every call of fixUpdateErrors invokes saveConfig exactly once, as the last thing
\* it does, after every patch of the batch.
C1_SavedExactlyOnceAfterPatches ==
    IsFixCall =>
        /\ Len(call.saved) = 1
        /\ SavesIn(call.log) = {Len(call.log)}
        /\ Len(call.log) = Len(call.errors) + 2

\* C2: fixUpdateErrors returns true exactly when every identifier of the batch is one of
\* the registered identifiers.
C2_ReturnsTrueIffAllRegistered ==
    IsFixCall => ~call.threw /\ (call.returned <=> AllRegistered(call))

\* C3: in a batch with an unregistered identifier, the patch of every registered
\* identifier of the batch is applied to the Config that is saved.
C3_PartialRepair ==
    (IsFixCall /\ ~AllRegistered(call)) =>
        \A error \in ErrorsOf(call) \cap RegisteredKeys :
            Len(call.saved) = 1 /\ Applied(error, call.saved[1])

\* C4: after a batch of registered identifiers, the saved Config holds the documented
\* value of every field the batch names; turnOnPrinterWhenExitingSleep holds the value
\* the psuControl field had before the batch.
C4_DocumentedValues ==
    (IsFixCall /\ AllRegistered(call)) =>
        /\ Len(call.saved) = 1
        /\ \A error \in ErrorsOf(call) : Applied(error, call.saved[1])
        /\ K_turnOnPrinterWhenExitingSleep \in ErrorsOf(call) =>
              call.saved[1].octodash.turnOnPrinterWhenExitingSleep = PriorPsuValue(call.before)

\* C5: handing a batch of registered identifiers to fixUpdateErrors a second time leaves
\* the Config as the first call left it (each patch is idempotent).
C5_Idempotent ==
    (lastEvent = "fixUpdateErrorsAgain" /\ AllRegistered(call) /\ ~call.threw) =>
        call.config = call.before

\* C6: fixUpdateErrors never raises: every call returns a boolean, with the save done.
C6_NeverRaises == IsFixCall => ~call.threw /\ Len(call.saved) = 1

\* C7: hasUpdateError returns true exactly when some element of the sequence is one of
\* the registered identifiers, and leaves the Config as it was.
C7_HasUpdateError ==
    call.op = "hasUpdateError" =>
        /\ call.returned <=> \E i \in 1..Len(call.errors) : call.errors[i] \in RegisteredKeys
        /\ configStore = call.before
        /\ Len(call.saved) = 0

C7_Witness ==
    /\ call.op = "hasUpdateError"
    /\ call.errors = <<IdUnknownOnly, K_zBabystepGCode>>
    /\ call.returned

(***************************************************************************)
(* Properties of the update poll (SpecUpdate).                             *)
(***************************************************************************)
\* C8: after every successful poll, updateAvailable equals
\* (latestVersion # currentVersion).
C8_UpdateAvailableIsComparison ==
    lastEvent = "release" => (updateAvailable <=> latestVersion # version)

\* C9: a failed poll leaves updateAvailable, latestVersion, latestVersionAssetsURL and
\* version as they were, raises no notification, and a timer for the next poll is pending.
C9_FailedPollChangesNothing ==
    [][lastEvent' = "releaseError" =>
          /\ updateAvailable' = updateAvailable
          /\ latestVersion' = latestVersion
          /\ latestVersionAssetsURL' = latestVersionAssetsURL
          /\ version' = version
          /\ notifications' = notifications
          /\ timers' >= 1]_vars

C9_Witness ==
    /\ lastEvent = "releaseError"
    /\ updateAvailable
    /\ latestVersion = <<"2">>
    /\ latestVersionAssetsURL = "https://x"
    /\ version = <<"1">>
    /\ timers >= 1

\* C10: at most one timer for a future checkUpdate is pending.
C10_OneTimer == timers <= 1

\* C11: every invocation of checkUpdate issues one request and arms exactly one timer in
\* the same step; the step in which a request settles arms none.
C11_EveryCheckArmsOneTimer ==
    [][/\ polls' = polls + 1 =>
             /\ requests' = requests + 1
             /\ timers' = (IF lastEvent' = "timer" THEN timers - 1 ELSE timers) + 1
       /\ lastEvent' \in {"release", "releaseError"} => timers' = timers]_vars

\* a second check was issued by the timer while the first request has not settled
C11_Witness ==
    /\ lastEvent = "timer"
    /\ announcements = 1
    /\ polls = 2
    /\ requests = 2
    /\ timers = 1

\* C12 (as claimed): at most one poll request is outstanding.
C12_AtMostOneOutstanding == requests <= 1

\* C12 (amended): polls may overlap. A timer that fires issues a new request whether
\* or not the earlier ones have settled, so the outstanding requests are bounded by the
\* number of checkUpdate invocations only.
C12_PollsMayOverlap ==
    /\ [](requests <= polls)
    /\ [][lastEvent' = "timer" => requests' = requests + 1]_vars

\* three requests are outstanding at once, in a single polling loop
C12_Witness == announcements = 1 /\ requests = 3 /\ lastEvent = "timer"

\* C13: a 'versionInformation' event carrying v sets version to v and issues a poll in
\* the same step; while version is unset no poll was issued and no timer is armed.
C13_AnnouncementStartsPolling ==
    /\ [](version = Undefined => polls = 0 /\ timers = 0 /\ requests = 0)
    /\ [][lastEvent' = "versionInformation" =>
             /\ version' = announced'
             /\ polls' = polls + 1
             /\ requests' = requests + 1
             /\ timers' = timers + 1]_vars

\* a second announcement, carrying another version, has replaced the first
C13_Witness ==
    /\ lastEvent = "versionInformation"
    /\ announcements = 2
    /\ version = <<"2">>
    /\ announced = <<"2">>
    /\ polls >= 2
    /\ latestVersion = <<"1">>

\* C14: the poll loop has no terminal state: once a check has been issued, a further
\* one is eventually issued (up to MaxPolls, where the model stops counting), whatever
\* the polls' outcomes.
C14_PollsKeepComing == \A n \in 1..(MaxPolls - 1) : (polls = n) ~> (polls > n)

\* every poll of a single loop has failed, and the loop has gone on to the last poll
C14_Witness ==
    /\ announcements = 1
    /\ polls = MaxPolls
    /\ requests = 0
    /\ received = NoRelease
    /\ lastEvent = "releaseError"

\* a name without its leading "v", if it has one
StripLeadingV(name) == IF name # <<>> /\ Head(name) = "v" THEN Tail(name) ELSE name

\* C15: after a successful poll, latestVersion is the release name with a leading "v"
\* removed, and the name unchanged when it does not start with "v".
C15_LeadingVStripped ==
    lastEvent = "release" => latestVersion = StripLeadingV(received.name)

\* a Config without the fields the identifiers of a batch name
Blanked(config, errors) ==
    LET printer == IF K_zBabystepGCode \in errors
                   THEN Delete(config.printer, "zBabystepGCode") ELSE config.printer
        plugins1 == IF K_tpLinkSmartPlug \in errors
                    THEN Delete(config.plugins, "tpLinkSmartPlug") ELSE config.plugins
        plugins2 == IF K_turnOnPrinterWhenExitingSleep \in errors /\ Has(plugins1, "psuControl")
                    THEN Set(plugins1, "psuControl",
                             Delete(plugins1.psuControl, "turnOnPSUWhenExitingSleep"))
                    ELSE plugins1
        octodash1 == IF K_previewProgressCircle \in errors
                     THEN Delete(config.octodash, "previewProgressCircle") ELSE config.octodash
        octodash2 == IF K_turnOnPrinterWhenExitingSleep \in errors
                     THEN Delete(octodash1, "turnOnPrinterWhenExitingSleep") ELSE octodash1
    IN  [printer |-> printer, plugins |-> plugins2, octodash |-> octodash2]

\* the Config a call leaves differs from the one it borrowed in the named fields only
OnlyNamedFieldsChanged(c) ==
    Blanked(c.config, ErrorsOf(c)) = Blanked(c.before, ErrorsOf(c))

\* C16: a call of fixUpdateErrors changes only the fields its batch names, and on a
\* batch without a registered identifier it saves the Config as it borrowed it.
C16_OnlyNamedFields ==
    IsFixCall =>
        /\ OnlyNamedFieldsChanged(call)
        /\ ErrorsOf(call) \cap RegisteredKeys = {} => call.saved = <<call.before>>

IsRegistered(error) == error \in RegisteredKeys

\* the patches of a sequence of registered identifiers, applied one after the other
RECURSIVE PatchedInOrder(_, _)
PatchedInOrder(config, registered) ==
    IF registered = <<>> THEN config
    ELSE PatchedInOrder(Invoke(Head(registered), config).config, Tail(registered))

GetsIn(log) == {i \in 1..Len(log) : log[i] = LogGet}

\* C17: a call of fixUpdateErrors borrows the Config once, before anything else, applies
\* the patches of the registered identifiers in input order, each to the result of the
\* one before, and passes the result to saveConfig.
C17_OneInstanceInOrder ==
    IsFixCall =>
        /\ GetsIn(call.log) = {1}
        /\ call.saved = <<PatchedInOrder(call.before, SelectSeq(call.errors, IsRegistered))>>

\* C18: fixUpdateErrors attempts a patch for an identifier exactly when hasUpdateError
\* holds of it alone, which is exactly when it is one of the four registered keys.
C18_SameMembership ==
    IsFixCall =>
        \A i \in 2..Len(call.log) :
            call.log[i].op \in {"patch", "unknown"} =>
                /\ call.log[i].op = "patch" <=> hasUpdateError(<<call.log[i].error>>)
                /\ hasUpdateError(<<call.log[i].error>>) <=> IsRegistered(call.log[i].error)

\* latest is name, or name without one of its "v"
NameLessOneV(latest, name) ==
    \/ latest = name
    \/ \E i \in 1..Len(name) :
          name[i] = "v" /\ latest = SubSeq(name, 1, i - 1) \o SubSeq(name, i + 1, Len(name))

\* C19: getLatestVersion and getLatestVersionAssetsURL return the version and the asset
\* location of the most recent successful response, whatever it was, and are unset
\* while no poll has succeeded.
C19_LatestIsMostRecentResponse ==
    IF received = NoRelease
    THEN getLatestVersion = Undefined /\ getLatestVersionAssetsURL = UndefinedURL
    ELSE /\ NameLessOneV(getLatestVersion, received.name)
         /\ getLatestVersionAssetsURL = received.assets_url

\* a response that equals the running version has replaced an earlier, newer one
C19_Witness ==
    /\ lastEvent = "release"
    /\ version = <<"2">>
    /\ updateAvailable
    /\ received = [name |-> <<"v", "2">>, assets_url |-> "https://y"]
    /\ getLatestVersion = <<"2">>
    /\ getLatestVersionAssetsURL = "https://y"

\* C20: updateAvailable implies that version, latestVersion and latestVersionAssetsURL
\* are set; it is false after construction and rises only in the step of a successful
\* poll whose version differs from version.
C20_UpdateAvailableImpliesKnown ==
    /\ [](/\ lastEvent = "constructor" => ~updateAvailable
          /\ updateAvailable =>
                /\ version # Undefined
                /\ latestVersion # Undefined
                /\ latestVersionAssetsURL # UndefinedURL)
    /\ [][(~updateAvailable /\ updateAvailable') =>
             (lastEvent' = "release" /\ latestVersion' # version')]_vars

\* updateAvailable has survived a failed poll and a throwing call of fixUpdateErrors
C20_Witness ==
    /\ updateAvailable
    /\ IsFixCall
    /\ call.threw
    /\ lastEvent = "releaseError"
    /\ version = <<"1">>
    /\ latestVersion = <<"2">>

=============================================================================
